---- MODULE Spec2Model ----
(***************************************************************************)
(* A model of erfa/cython_generator.py: the documentation-block parser     *)
(* (FunctionDoc, ArgumentDoc), the argument classifier (Argument, Return)  *)
(* and the declaration locator (Function).                                 *)
(*                                                                         *)
(* A Python str is a sequence of one-character strings, so that the        *)
(* regular expressions, split, strip and replace of the source are         *)
(* computed character by character.  A value that may be None is wrapped:  *)
(* None is <<>> and a value v that is not None is <<v>>.                   *)
(***************************************************************************)
EXTENDS Naturals, Sequences, FiniteSets

VARIABLES src, match_line, status, err, self, fd, args, out

vars == <<src, match_line, status, err, self, fd, args, out>>

None == <<>>
Some(v) == <<v>>

(***************************************************************************)
(* Python str primitives.                                                  *)
(***************************************************************************)
Min(S) == CHOOSE x \in S : \A y \in S : x <= y
Max(S) == CHOOSE x \in S : \A y \in S : x >= y

\* s[i:] for a 1-based i
From(s, i) == SubSeq(s, i, Len(s))

\* the 1-based positions at which sub occurs in s
Occ(s, sub) ==
  {i \in 1..(Len(s) - Len(sub) + 1) :
     s[i] = sub[1] /\ SubSeq(s, i, i + Len(sub) - 1) = sub}

\* s.startswith(p)
startswith(s, p) == Len(p) <= Len(s) /\ SubSeq(s, 1, Len(p)) = p

\* sub in s
contains(s, sub) == Occ(s, sub) # {}

\* s.replace(old, new): left to right, occurrences do not overlap
RECURSIVE replace(_, _, _)
replace(s, old, new) ==
  IF Occ(s, old) = {} THEN s
  ELSE LET k == Min(Occ(s, old))
       IN SubSeq(s, 1, k - 1) \o new \o replace(From(s, k + Len(old)), old, new)

\* s.split(sep) for a one-character sep: always at least one piece
RECURSIVE split(_, _)
split(s, sep) ==
  IF \A i \in 1..Len(s) : s[i] # sep THEN <<s>>
  ELSE LET k == Min({i \in 1..Len(s) : s[i] = sep})
       IN <<SubSeq(s, 1, k - 1)>> \o split(From(s, k + 1), sep)

\* the characters s.strip() removes (of those the model's texts contain)
Whitespace == {" ", "\n"}

\* s.strip()
strip(s) ==
  LET keep == {i \in 1..Len(s) : s[i] \notin Whitespace}
  IN IF keep = {} THEN <<>> ELSE SubSeq(s, Min(keep), Max(keep))

\* join.join(parts)
RECURSIVE join(_, _)
join(sep, parts) ==
  IF parts = <<>> THEN <<>>
  ELSE IF Len(parts) = 1 THEN parts[1]
  ELSE parts[1] \o sep \o join(sep, Tail(parts))

(***************************************************************************)
(* ArgumentDoc: one line of a documentation section.                       *)
(***************************************************************************)
\* the length of the longest prefix of s made only of spaces
spaces(s) ==
  LET other == {i \in 1..Len(s) : s[i] # " "}
  IN IF other = {} THEN Len(s) ELSE Min(other) - 1

\* the length of the longest prefix of s holding no space
nonspaces(s) ==
  LET sp == {i \in 1..Len(s) : s[i] = " "}
  IN IF sp = {} THEN Len(s) ELSE Min(sp) - 1

\* the lengths of the runs of spaces and of other characters that s is made
\* of, the first a run of spaces (of length 0 when s starts otherwise)
RECURSIVE runs(_, _)
runs(s, of_spaces) ==
  IF s = <<>> THEN <<>>
  ELSE IF of_spaces THEN <<spaces(s)>> \o runs(From(s, spaces(s) + 1), FALSE)
  ELSE <<nonspaces(s)>> \o runs(From(s, nonspaces(s) + 1), TRUE)

\* the groups of the match on a line whose runs are r
ArgumentDoc_groups(doc, r) ==
  IF Len(r) >= 6 /\ r[1] >= 1
  THEN Some(<<SubSeq(doc, r[1] + 1, r[1] + r[2]),
              SubSeq(doc, r[1] + r[2] + r[3] + 1, r[1] + r[2] + r[3] + r[4]),
              From(doc, r[1] + r[2] + r[3] + r[4] + r[5] + 1)>>)
  ELSE IF Len(r) = 5 /\ r[1] >= 1 /\ r[5] >= 2
  THEN Some(<<SubSeq(doc, r[1] + 1, r[1] + r[2]),
              SubSeq(doc, r[1] + r[2] + r[3] + 1, r[1] + r[2] + r[3] + r[4]),
              <<" ">> >>)
  ELSE None

\* re.search("^ +([^ ]+)[ ]+([^ ]+)[ ]+(.+)", doc) on one line (no "\n" in
\* it): the groups, or None.  Every quantifier but the last [ ]+ is forced
\* to its greedy match (spaces, a name, spaces, a type, spaces); the last
\* [ ]+ gives one space back to (.+) when nothing follows the spaces.
ArgumentDoc_match(doc) == ArgumentDoc_groups(doc, runs(doc, TRUE))

\* the fields ArgumentDoc.__init__ sets from the match
ArgumentDoc_fields(match) ==
  IF match # None
  THEN [name |-> Some(match[1][1]), type |-> Some(match[1][2]),
        doc |-> Some(match[1][3])]
  ELSE [name |-> None, type |-> None, doc |-> None]

\* ArgumentDoc.__init__
ArgumentDoc(doc) == ArgumentDoc_fields(ArgumentDoc_match(doc))

(***************************************************************************)
(* FunctionDoc: the sections of a documentation comment.                   *)
(***************************************************************************)
Given == <<"G", "i", "v", "e", "n">>
Given_and_returned ==
  <<"G", "i", "v", "e", "n", " ", "a", "n", "d", " ",
    "r", "e", "t", "u", "r", "n", "e", "d">>
Returned == <<"R", "e", "t", "u", "r", "n", "e", "d">>

\* the positions of the "\n" of doc from position p on
newlines_from(doc, p) == {n \in p..Len(doc) : doc[n] = "\n"}

\* the positions from p on at which "  \n" starts
terminators_from(doc, p) ==
  {t \in p..(Len(doc) - 2) :
     doc[t] = " " /\ doc[t + 1] = " " /\ doc[t + 2] = "\n"}

\* (.+?)  \n after a header line that ends at nl: where the "  \n" starts,
\* at least one character into the text that follows; 0 when there is none
terminator_after(doc, nl) ==
  IF terminators_from(doc, nl + 2) = {} THEN 0
  ELSE Min(terminators_from(doc, nl + 2))

\* ([^\n]*):\n after a header that ends before position e: the position of
\* the "\n" when the line ends in ":", else 0
header_line_end(doc, e, nls) ==
  IF nls = {} THEN 0
  ELSE IF Min(nls) - 1 >= e /\ doc[Min(nls) - 1] = ":" THEN Min(nls)
  ELSE 0

\* where group(2) starts and ends when header + "([^\n]*):\n(.+?)  \n"
\* matches with the header at i, else <<0, 0>>
section_span_at(doc, nl) ==
  IF nl = 0 \/ terminator_after(doc, nl) = 0 THEN <<0, 0>>
  ELSE <<nl + 1, terminator_after(doc, nl) - 1>>

section_span(doc, header, i) ==
  section_span_at(doc, header_line_end(doc, i + Len(header),
                                       newlines_from(doc, i + Len(header))))

\* group(2) of the leftmost of the matches that start at one of starts
leftmost_section(header, doc, starts) ==
  IF starts = {} THEN None
  ELSE Some(SubSeq(doc, section_span(doc, header, Min(starts))[1],
                   section_span(doc, header, Min(starts))[2]))

\* re.search(header + "([^\n]*):\n(.+?)  \n", doc, re.DOTALL): group(2) of
\* the leftmost match, or None
re_search_section(header, doc) ==
  leftmost_section(header, doc,
                   {i \in Occ(doc, header) : section_span(doc, header, i)[1] # 0})

\* "if arg_doc.name is not None: append(arg_doc)"
appended(arg_doc) == IF arg_doc.name # None THEN <<arg_doc>> ELSE <<>>

\* the loop "for i in text.split('\n')" of the properties: the lines that
\* parse, in order
RECURSIVE parsed_lines(_)
parsed_lines(lines) ==
  IF lines = <<>> THEN <<>>
  ELSE appended(ArgumentDoc(Head(lines))) \o parsed_lines(Tail(lines))

\* "if result is not None: for i in result.group(2).split('\n'): ..."
entries_of(result) ==
  IF result # None THEN parsed_lines(split(result[1], "\n")) ELSE <<>>

\* one "result = re.search(...); if result is not None: ..." block
section_entries(header, doc) == entries_of(re_search_section(header, doc))

\* FunctionDoc.__init__
FunctionDoc(doc) ==
  [doc |-> replace(replace(replace(doc, <<"*", "*">>, <<" ", " ">>),
                           <<"/", "*">>, <<" ", " ">>),
                   <<"*", "/">>, <<" ", " ">>),
   input |-> None, output |-> None]

\* a FunctionDoc.input without the cache: every read parses again and
\* appends to what the earlier reads left
FunctionDoc_input_reparsed(d) ==
  [d EXCEPT !.input =
     Some((IF d.input = None THEN <<>> ELSE d.input[1])
          \o section_entries(Given, d.doc)
          \o section_entries(Given_and_returned, d.doc))]

\* FunctionDoc.input: the object after the read (the value read is its
\* input[1])
FunctionDoc_input(d) ==
  IF d.input = None
  THEN [d EXCEPT !.input = Some(section_entries(Given, d.doc)
                                \o section_entries(Given_and_returned, d.doc))]
  ELSE d

\* FunctionDoc.output: the object after the read (the value read is its
\* output[1])
FunctionDoc_output(d) ==
  IF d.output = None
  THEN [d EXCEPT !.output = Some(section_entries(Returned, d.doc)
                                 \o section_entries(Given_and_returned, d.doc))]
  ELSE d

(***************************************************************************)
(* Argument and Return.                                                    *)
(***************************************************************************)
dir_unknown == <<>>
dir_in == <<"i", "n">>
dir_out == <<"o", "u", "t">>
dir_inout == <<"i", "n", "o", "u", "t">>
dir_ret == <<"r", "e", "t">>

\* Argument.__init__ raises ValueError (the unpacking of rsplit(" ", 1))
\* when the stripped definition holds neither "*" nor " "
Argument_raises(definition) ==
  LET d == strip(definition)
  IN ~contains(d, <<"*">>) /\ ~contains(d, <<" ">>)

\* Argument.__init__, when it does not raise
Argument(definition) ==
  LET d == strip(definition)
  IN IF contains(d, <<"*">>)
     THEN LET k == Min(Occ(d, <<"*">>))
          IN [cls |-> "Argument", definition |-> d,
              ctype |-> SubSeq(d, 1, k - 1) \o <<"*">>,
              name |-> From(d, k + 1), inout_state |-> None]
     ELSE LET k     == Max(Occ(d, <<" ">>))
              ctype == SubSeq(d, 1, k - 1)
              name  == From(d, k + 1)
          IN IF contains(name, <<"[">>)
             THEN LET b == Min(Occ(name, <<"[">>))
                  IN [cls |-> "Argument", definition |-> d,
                      ctype |-> ctype \o From(name, b),
                      name |-> SubSeq(name, 1, b - 1), inout_state |-> None]
             ELSE [cls |-> "Argument", definition |-> d, ctype |-> ctype,
                   name |-> name, inout_state |-> None]

\* a membership test that takes the name anywhere inside the entry's name
listed_substring(name, entry) == contains(entry.name[1], name)

\* a membership test that compares the name with the entry's whole name
listed_whole(name, entry) == entry.name[1] = name

\* name in entry.name.split(',')
listed(name, entry) ==
  \E k \in 1..Len(split(entry.name[1], ",")) : split(entry.name[1], ",")[k] = name

\* the loop over doc.input of Argument.inout_state
RECURSIVE state_after_input(_, _, _)
state_after_input(state, name, input) ==
  IF input = <<>> THEN state
  ELSE state_after_input(IF listed(name, Head(input)) THEN dir_in ELSE state,
                         name, Tail(input))

\* the loop over doc.output of Argument.inout_state
RECURSIVE state_after_output(_, _, _)
state_after_output(state, name, output) ==
  IF output = <<>> THEN state
  ELSE state_after_output(
         IF listed(name, Head(output))
         THEN (IF state = dir_in THEN dir_inout ELSE dir_out)
         ELSE state,
         name, Tail(output))

\* the value Argument.inout_state computes on its first read
inout_state(name, input, output) ==
  state_after_output(state_after_input(dir_unknown, name, input), name, output)

\* Return.__init__
Return(ctype) ==
  [cls |-> "Return", name |-> dir_ret, ctype |-> ctype,
   inout_state |-> Some(dir_ret), ctype_ptr |-> ctype]

(***************************************************************************)
(* Function.__init__: reading the file, locating the declaration and its   *)
(* comment, building the arguments.                                        *)
(***************************************************************************)
\* the positions at which a line of text starts: what the readline loop
\* visits, in order
line_starts(text) ==
  {p \in 1..Len(text) : p = 1 \/ text[p - 1] = "\n"}

\* the line that starts at p, its "\n" included (f.readline())
line_at(text, p) ==
  LET nls == {n \in p..Len(text) : text[n] = "\n"}
  IN IF nls = {} THEN From(text, p) ELSE SubSeq(text, p, Min(nls))

\* "if match_line:"
truthy(m) == m # None /\ m[1] # <<>>

\* a read that keeps the whole file whatever match_line is
read_filecontents_whole(text, m) == Some(text)

\* the "with open(...)" block: filecontents, or None when the loop's else
\* branch raises ValueError
read_filecontents(text, m) ==
  IF truthy(m)
  THEN LET hits == {p \in line_starts(text) : startswith(line_at(text, p), m[1])}
       IN IF hits = {} THEN None
          ELSE Some(<<"\n">> \o From(text, Min(hits)))
  ELSE Some(text)

\* the end of group 1 when "[^\n]+" stops right before a name at p:
\* name, " ?", "(", "[^)]+", ")"; 0 when that does not match
decl_close(s, name, p) ==
  LET e == p + Len(name)
      q == IF e <= Len(s) /\ s[e] = "(" THEN e
           ELSE IF e + 1 <= Len(s) /\ s[e] = " " /\ s[e + 1] = "(" THEN e + 1
           ELSE 0
      closes == {c \in (q + 1)..Len(s) : s[c] = ")"}
  IN IF q = 0 \/ closes = {} THEN 0
     ELSE IF Min(closes) >= q + 2 THEN Min(closes) ELSE 0

\* ".+?(/\*.+?\*/)" after a group 1 that ends at close: the first and last
\* position of group 2, or <<0, 0>>
comment_span(s, close) ==
  LET opens == {c \in (close + 2)..Len(s) :
                  c + 1 <= Len(s) /\ s[c] = "/" /\ s[c + 1] = "*"}
  IN IF opens = {} THEN <<0, 0>>
     ELSE LET c1   == Min(opens)
              ends == {c \in (c1 + 3)..Len(s) :
                         c + 1 <= Len(s) /\ s[c] = "*" /\ s[c + 1] = "/"}
          IN IF ends = {} THEN <<0, 0>> ELSE <<c1, Min(ends) + 1>>

\* where the line that follows the "\n" at i ends
end_of_line(s, i) ==
  IF newlines_from(s, i + 1) = {} THEN Len(s) ELSE Min(newlines_from(s, i + 1)) - 1

\* the names on the line after the "\n" at i, a line that ends at eol, at
\* which the whole pattern matches ("[^\n]+" is greedy: the match takes the
\* last of them)
decl_names_to(s, name, i, eol) ==
  {p \in (i + 2)..eol :
     /\ p + Len(name) - 1 <= eol
     /\ SubSeq(s, p, p + Len(name) - 1) = name
     /\ decl_close(s, name, p) # 0
     /\ comment_span(s, decl_close(s, name, p))[1] # 0}

decl_names(s, name, i) == decl_names_to(s, name, i, end_of_line(s, i))

\* the two groups of the match whose group 1 starts after the "\n" at i and
\* ends at close, its group 2 being at span
decl_groups(s, i, close, span) ==
  Some(<<SubSeq(s, i + 1, close), SubSeq(s, span[1], span[2])>>)

decl_groups_to(s, i, close) == decl_groups(s, i, close, comment_span(s, close))

decl_groups_at(s, name, i) ==
  decl_groups_to(s, i, decl_close(s, name, Max(decl_names(s, name, i))))

\* the groups of the leftmost match, given the "\n" at which a match starts
decl_leftmost(name, s, starts) ==
  IF starts = {} THEN None ELSE decl_groups_at(s, name, Min(starts))

\* p.search(filecontents) for the pattern
\* "\n([^\n]+NAME ?\([^)]+\)).+?(/\*.+?\*/)" with re.DOTALL: the two groups
\* of the leftmost match, or None
decl_search(name, s) ==
  decl_leftmost(name, s,
                {i \in 1..Len(s) : s[i] = "\n" /\ decl_names(s, name, i) # {}})

\* re.search("\(([^)]+)\)", cfunc).group(1).split(',')
arg_definitions(cfunc) ==
  LET opens == {q \in 1..Len(cfunc) :
                  /\ cfunc[q] = "("
                  /\ \E c \in (q + 2)..Len(cfunc) :
                       cfunc[c] = ")" /\ \A k \in (q + 1)..(c - 1) : cfunc[k] # ")"}
      q     == Min(opens)
      close == Min({c \in (q + 1)..Len(cfunc) : cfunc[c] = ")"})
  IN split(SubSeq(cfunc, q + 1, close - 1), ",")

\* re.search("^(.*)NAME", cfunc).group(1).strip(): the text before the last
\* name on the first line
return_type(name, cfunc) ==
  LET nls  == {n \in 1..Len(cfunc) : cfunc[n] = "\n"}
      eol  == IF nls = {} THEN Len(cfunc) ELSE Min(nls) - 1
      hits == {p \in Occ(cfunc, name) : p + Len(name) - 1 <= eol}
  IN strip(SubSeq(cfunc, 1, Max(hits) - 1))

double == <<"d", "o", "u", "b", "l", "e">>

\* a loop that puts each new Argument in front of the earlier ones
RECURSIVE Arguments_reversed(_)
Arguments_reversed(definitions) ==
  IF definitions = <<>> THEN <<>>
  ELSE Arguments_reversed(Tail(definitions)) \o <<Argument(Head(definitions))>>

\* the loop "for arg in ...: self.args.append(Argument(arg, self.__doc))"
RECURSIVE Arguments(_)
Arguments(definitions) ==
  IF definitions = <<>> THEN <<>>
  ELSE <<Argument(Head(definitions))>> \o Arguments(Tail(definitions))

\* arguments that end with a Return for every return type but void
Function_args_nonvoid(name, cfunc) ==
  Arguments(arg_definitions(cfunc))
  \o (IF return_type(name, cfunc) # <<"v", "o", "i", "d">>
      THEN <<Return(return_type(name, cfunc))>> ELSE <<>>)

\* self.args as lines 210 to 215 leave it
Function_args(name, cfunc) ==
  Arguments(arg_definitions(cfunc))
  \o (IF return_type(name, cfunc) = double THEN <<Return(double)>> ELSE <<>>)

\* whether one of the Argument(...) of line 212 raises
Function_args_raise(cfunc) ==
  \E k \in 1..Len(arg_definitions(cfunc)) :
     Argument_raises(arg_definitions(cfunc)[k])

upper_letters ==
  <<"A", "B", "C", "D", "E", "F", "G", "H", "I", "J", "K", "L", "M",
    "N", "O", "P", "Q", "R", "S", "T", "U", "V", "W", "X", "Y", "Z">>
lower_letters ==
  <<"a", "b", "c", "d", "e", "f", "g", "h", "i", "j", "k", "l", "m",
    "n", "o", "p", "q", "r", "s", "t", "u", "v", "w", "x", "y", "z">>

\* str.lower() on one character
lower_char(c) ==
  IF \E k \in 1..Len(upper_letters) : upper_letters[k] = c
  THEN lower_letters[CHOOSE k \in 1..Len(upper_letters) : upper_letters[k] = c]
  ELSE c

\* s.lower()
lower(s) == [i \in 1..Len(s) |-> lower_char(s[i])]

\* s.split(sep)[-1]: what follows the last sep of s
split_last(s, sep) ==
  IF Occ(s, sep) = {} THEN s ELSE From(s, Max(Occ(s, sep)) + Len(sep))

era == <<"e", "r", "a">>

\* os.path.normpath: the number of leading slashes kept (two are kept,
\* three or more become one)
initial_slashes(path) ==
  IF ~startswith(path, <<"/">>) THEN 0
  ELSE IF startswith(path, <<"/", "/">>) /\ ~startswith(path, <<"/", "/", "/">>)
  THEN 2
  ELSE 1

\* os.path.normpath: the loop over the components, new_comps being those
\* kept so far; empty and "." components are dropped and ".." removes the
\* component before it when there is one to remove
RECURSIVE normpath_comps(_, _, _)
normpath_comps(comps, new_comps, slashes) ==
  IF comps = <<>> THEN new_comps
  ELSE IF Head(comps) = <<>> \/ Head(comps) = <<".">>
  THEN normpath_comps(Tail(comps), new_comps, slashes)
  ELSE IF \/ Head(comps) # <<".", ".">>
          \/ (slashes = 0 /\ new_comps = <<>>)
          \/ (new_comps # <<>> /\ new_comps[Len(new_comps)] = <<".", ".">>)
  THEN normpath_comps(Tail(comps), Append(new_comps, Head(comps)), slashes)
  ELSE IF new_comps # <<>>
  THEN normpath_comps(Tail(comps), SubSeq(new_comps, 1, Len(new_comps) - 1),
                      slashes)
  ELSE normpath_comps(Tail(comps), new_comps, slashes)

\* the path os.path.normpath builds, before "or '.'"
normpath_joined(path, slashes) ==
  [k \in 1..slashes |-> "/"]
  \o join(<<"/">>, normpath_comps(split(path, "/"), <<>>, slashes))

\* os.path.normpath (posixpath)
normpath(path) ==
  IF normpath_joined(path, initial_slashes(path)) = <<>> THEN <<".">>
  ELSE normpath_joined(path, initial_slashes(path))

\* os.path.join(a, b) (posixpath) of two paths
os_path_join(a, b) ==
  IF startswith(b, <<"/">>) THEN b
  ELSE IF a = <<>> \/ a[Len(a)] = "/" THEN a \o b
  ELSE a \o <<"/">> \o b

\* lines 180 to 186: the fields set before the file is opened
Function_paths(name, source_path, isdir) ==
  LET filename == lower(split_last(name, era)) \o <<".", "c">>
  IN [name |-> name, pyname |-> lower(split_last(name, era)),
      filename |-> filename,
      filepath |-> IF isdir THEN os_path_join(normpath(source_path), filename)
                   ELSE source_path,
      cfunc |-> None, ret |-> None]

\* the message of the ValueError of lines 197 to 199
match_line_msg(m, filepath) ==
  <<"C", "o", "u", "l", "d", " ", "n", "o", "t", " ", "f", "i", "n",
    "d", " ", "t", "h", "e", " ", "m", "a", "t", "c", "h", "_", "l",
    "i", "n", "e", " ", "\"">>
  \o m \o
  <<"\"", " ", "i", "n", " ", "t", "h", "e", " ", "s", "o", "u", "r",
    "c", "e", " ", "f", "i", "l", "e", " ", "\"">>
  \o filepath \o <<"\"">>

\* the message of the AttributeError of line 207: search is None
no_group_msg ==
  <<"'", "N", "o", "n", "e", "T", "y", "p", "e", "'", " ", "o", "b",
    "j", "e", "c", "t", " ", "h", "a", "s", " ", "n", "o", " ", "a",
    "t", "t", "r", "i", "b", "u", "t", "e", " ", "'", "g", "r", "o",
    "u", "p", "'">>

\* the message of the ValueError of line 111: rsplit gave one piece
unpack_msg ==
  <<"n", "o", "t", " ", "e", "n", "o", "u", "g", "h", " ", "v", "a",
    "l", "u", "e", "s", " ", "t", "o", " ", "u", "n", "p", "a", "c",
    "k", " ", "(", "e", "x", "p", "e", "c", "t", "e", "d", " ", "2",
    ",", " ", "g", "o", "t", " ", "1", ")">>

\* the Arguments appended before the first Argument(...) that raises
RECURSIVE Arguments_until_raise(_)
Arguments_until_raise(definitions) ==
  IF definitions = <<>> \/ Argument_raises(Head(definitions)) THEN <<>>
  ELSE <<Argument(Head(definitions))>> \o Arguments_until_raise(Tail(definitions))

\* lines 207 to 215, given the groups of the match
Function_built(name, base, cfunc, comment) ==
  IF Function_args_raise(cfunc)
  THEN [self |-> [base EXCEPT !.cfunc = Some(cfunc)],
        fd |-> Some(FunctionDoc(comment)),
        args |-> Arguments_until_raise(arg_definitions(cfunc)),
        err |-> Some([type |-> "ValueError", msg |-> unpack_msg])]
  ELSE [self |-> [base EXCEPT !.cfunc = Some(cfunc),
                              !.ret = Some(return_type(name, cfunc))],
        fd |-> Some(FunctionDoc(comment)),
        args |-> Function_args(name, cfunc),
        err |-> None]

\* lines 206 to 215, given what p.search returned
Function_searched(name, base, search) ==
  IF search = None
  THEN [self |-> base, fd |-> None, args |-> <<>>,
        err |-> Some([type |-> "AttributeError", msg |-> no_group_msg])]
  ELSE Function_built(name, base, search[1][1], search[1][2])

\* lines 188 to 215, given what the "with open(...)" block read
Function_read(name, base, m, filecontents) ==
  IF filecontents = None
  THEN [self |-> base, fd |-> None, args |-> <<>>,
        err |-> Some([type |-> "ValueError",
                      msg |-> match_line_msg(m[1], base.filepath)])]
  ELSE Function_searched(name, base, decl_search(name, filecontents[1]))

\* Function.__init__: the object's fields, the documentation object, the
\* arguments and the exception (None when it returns)
Function(name, path, isdir, text, m) ==
  Function_read(name, Function_paths(name, path, isdir), m,
                read_filecontents(text, m))

(***************************************************************************)
(* The properties and the query of a built object.                         *)
(***************************************************************************)
\* lines 119 to 128, given the documentation object after the reads of its
\* input and output
Argument_classified(a, d) ==
  <<[a EXCEPT !.inout_state =
                Some(inout_state(a.name, d.input[1], d.output[1]))], d>>

\* Argument.inout_state (and the attribute of the same name of Return):
\* the argument and the documentation object after the read
Argument_inout_state(a, d) ==
  IF a.inout_state = None
  THEN Argument_classified(a, FunctionDoc_output(FunctionDoc_input(d)))
  ELSE <<a, d>>

\* the reads of arg.inout_state that the loop of args_by_inout makes, in
\* order: the arguments and the documentation object after them
RECURSIVE read_all(_, _)
read_rest(first, rest) == <<(<<first[1]>> \o rest[1]), rest[2]>>
read_next(first, as) == read_rest(first, read_all(Tail(as), first[2]))
read_all(as, d) ==
  IF as = <<>> THEN <<as, d>>
  ELSE read_next(Argument_inout_state(Head(as), d), as)

\* a filter test that takes the direction anywhere inside inout_filter
selected_substring(state, inout_filter) ==
  state = <<>> \/ contains(inout_filter, state)

\* "arg.inout_state in inout_filter.split('|')"
selected(state, inout_filter) ==
  \E k \in 1..Len(split(inout_filter, "|")) : split(inout_filter, "|")[k] = state

\* the indexes of the arguments the loop of args_by_inout appends, in order
RECURSIVE selection(_, _, _)
selection(as, inout_filter, i) ==
  IF i > Len(as) THEN <<>>
  ELSE (IF selected(as[i].inout_state[1], inout_filter) THEN <<i>> ELSE <<>>)
       \o selection(as, inout_filter, i + 1)

\* getattr(arg, prop) for the attributes "name" and "ctype"
getattr(a, prop) == IF prop = "name" THEN a.name ELSE a.ctype

\* Function.args_by_inout on arguments whose inout_state has been read:
\* objs holds the indexes in self.args of the objects returned (prop None),
\* strs the attributes (prop given), str the joined string (join given).
\* str.join raises TypeError on a non-empty list of objects.
args_by_inout(as, inout_filter, prop, jn) ==
  LET picks == selection(as, inout_filter, 1)
      strs  == [k \in 1..Len(picks) |-> getattr(as[picks[k]], prop[1])]
  IN IF prop = None /\ jn = None
     THEN [kind |-> "objs", objs |-> picks, strs |-> <<>>, str |-> <<>>]
     ELSE IF prop = None /\ picks # <<>>
     THEN [kind |-> "TypeError", objs |-> <<>>, strs |-> <<>>, str |-> <<>>]
     ELSE IF prop = None
     THEN [kind |-> "str", objs |-> <<>>, strs |-> <<>>, str |-> <<>>]
     ELSE IF jn = None
     THEN [kind |-> "strs", objs |-> <<>>, strs |-> strs, str |-> <<>>]
     ELSE [kind |-> "str", objs |-> <<>>, strs |-> <<>>,
           str |-> join(jn[1], strs)]

(***************************************************************************)
(* The inputs: a documentation comment is a sequence of sections, each a   *)
(* header, entry lines and, when it is terminated, the line "**" that      *)
(* FunctionDoc.__init__ turns into two spaces; a source file is a          *)
(* declaration, its comment and what precedes them.                        *)
(***************************************************************************)
Headers == {"G", "R", "GR"}

header_line(h) ==
  IF h = "G" THEN <<"*", "*", " ", " ", "G", "i", "v", "e", "n", ":", "\n">>
  ELSE IF h = "R" THEN <<"*", "*", " ", " ", "R", "e", "t", "u", "r", "n", "e", "d", ":",
      "\n">>
  ELSE <<"*", "*", " ", " ", "G", "i", "v", "e", "n", " ", "a", "n", "d",
      " ", "r", "e", "t", "u", "r", "n", "e", "d", ":", "\n">>

\* the names an entry line documents, by the line's key
entry_names(e) ==
  IF e = "a" THEN << <<"a">> >>
  ELSE IF e = "b" THEN << <<"b">> >>
  ELSE IF e = "a,b" THEN << <<"a">>, <<"b">> >>
  ELSE IF e = "ab" THEN << <<"a", "b">> >>
  ELSE <<>>

entry_line(e) ==
  IF e = "a" THEN <<"*", "*", " ", " ", " ", " ", " ", "a", " ", " ", " ", " ", "d",
      "o", "u", "b", "l", "e", "[", "3", "]", " ", " ", " ", " ", "f",
      "i", "r", "s", "t", " ", "v", "e", "c", "t", "o", "r", "\n">>
  ELSE IF e = "b" THEN <<"*", "*", " ", " ", " ", " ", " ", "b", " ", " ", " ", " ", "d",
      "o", "u", "b", "l", "e", "[", "3", "]", " ", " ", " ", " ", "s",
      "e", "c", "o", "n", "d", " ", "v", "e", "c", "t", "o", "r", "\n">>
  ELSE IF e = "a,b" THEN <<"*", "*", " ", " ", " ", " ", " ", "a", ",", "b", " ", " ", "d",
      "o", "u", "b", "l", "e", " ", " ", "a", "n", "g", "l", "e", "s",
      "\n">>
  ELSE IF e = "ab" THEN <<"*", "*", " ", " ", " ", " ", " ", "a", "b", " ", " ", " ", "d",
      "o", "u", "b", "l", "e", " ", " ", "p", "r", "o", "d", "u", "c",
      "t", "\n">>
  ELSE <<"*", "*", " ", " ", " ", " ", " ", " ", " ", " ", " ", " ", " ",
      " ", "(", "N", "o", "t", "e", " ", "1", ")", "\n">>

RECURSIVE entry_lines(_)
entry_lines(es) ==
  IF es = <<>> THEN <<>> ELSE entry_line(Head(es)) \o entry_lines(Tail(es))

section_text(sec) ==
  header_line(sec.hdr) \o entry_lines(sec.entries)
  \o (IF sec.term THEN <<"*", "*", "\n">> ELSE <<>>)

RECURSIVE sections_text(_)
sections_text(doc) ==
  IF doc = <<>> THEN <<>> ELSE section_text(Head(doc)) \o sections_text(Tail(doc))

\* the comment that follows a declaration
comment_text(doc) == <<"/", "*", "\n">> \o sections_text(doc) \o <<"*", "/">>

int == <<"i", "n", "t">>
void == <<"v", "o", "i", "d">>
eraSepp == <<"e", "r", "a", "S", "e", "p", "p">>

\* the parameters of the declarations, by key
Param(k) ==
  IF k = "a" THEN [type |-> double, ptr |-> FALSE, name |-> <<"a">>,
                   dims |-> <<"[", "3", "]">>]
  ELSE IF k = "b" THEN [type |-> double, ptr |-> FALSE, name |-> <<"b">>,
                        dims |-> <<"[", "3", "]">>]
  ELSE IF k = "ab" THEN [type |-> double, ptr |-> TRUE, name |-> <<"a", "b">>,
                         dims |-> <<>>]
  ELSE [type |-> int, ptr |-> FALSE, name |-> <<"n">>, dims |-> <<>>]

param_text(k) ==
  Param(k).type \o <<" ">> \o (IF Param(k).ptr THEN <<"*">> ELSE <<>>)
  \o Param(k).name \o Param(k).dims

declaration_text(ret, name, params) ==
  ret \o <<" ">> \o name \o <<"(">>
  \o join(<<",", " ">>, [k \in 1..Len(params) |-> param_text(params[k])])
  \o <<")">>

\* the return type and name a header declaration starts with: the anchor
\* that main passes as match_line
anchor(ret, name) == ret \o <<" ">> \o name

call_site == <<" ", " ", "s", " ", "=", " ", "e", "r", "a", "S", "e", "p", "p",
      "(", "x", ",", " ", "y", ")">>

\* a function that calls eraSepp, ahead of the declaration
caller_text ==
  <<"v", "o", "i", "d", " ", "f", "(", "v", "o", "i", "d", ")", "\n", "{", "\n">>
  \o call_site \o <<";", "\n", "}", "\n">>

\* a function whose name starts with eraSepp and that calls eraSepp, ahead
\* of the declaration
prefix_text(ret) ==
  anchor(ret, eraSepp) \o <<"x", "(", "v", "o", "i", "d", ")", "\n", "{", "\n">>
  \o call_site \o <<";", "\n", "}", "\n">>

\* a file that does not mention eraSepp
other_text ==
  <<"v", "o", "i", "d", " ", "f", "(", "v", "o", "i", "d", ")", "\n",
      "/", "*", " ", "n", "o", "n", "e", " ", "*", "/", "\n", "{",
      "\n", "}", "\n">>

body_text == <<"\n", "{", "\n", "}", "\n">>

\* the first lines of every source file
include_text ==
  <<"#", "i", "n", "c", "l", "u", "d", "e", " ", "\"", "e", "r", "f",
    "a", ".", "h", "\"", "\n", "\n">>

\* the text of the source file
file_text(s) ==
  LET decl == declaration_text(s.ret, eraSepp, s.params)
      full == decl \o <<"\n">> \o comment_text(s.doc) \o body_text
  IN include_text
     \o (IF s.layout = "plain" THEN full
         ELSE IF s.layout = "call" THEN caller_text \o full
         ELSE IF s.layout = "prefix" THEN prefix_text(s.ret) \o full
         ELSE IF s.layout = "nocomment" THEN decl \o body_text
         ELSE other_text)

\* the source_path Function is called with
source_path(s) == s.path

\* the single file that holds every function
erfa_c == <<"e", "r", "f", "a", ".", "c">>

\* the ways the directory src, and a file in the working directory, are
\* written
SourcePaths ==
  {[isdir |-> TRUE, path |-> <<"s", "r", "c">>],
   [isdir |-> TRUE, path |-> <<"s", "r", "c", "/">>],
   [isdir |-> TRUE, path |-> <<".", "/", "s", "r", "c">>],
   [isdir |-> TRUE, path |-> <<"s", "r", "c", "/", ".", ".", "/", "s", "r", "c">>],
   [isdir |-> TRUE, path |-> <<".", ".", "/", "s", "r", "c", "/", "/", "e">>],
   [isdir |-> TRUE, path |-> <<"/", "/", "s", "r", "c", "/", ".">>],
   [isdir |-> TRUE, path |-> <<".">>],
   [isdir |-> FALSE, path |-> <<".", "/", "e", "r", "f", "a", ".", "c">>]}

(***************************************************************************)
(* Bounds and input sets.                                                  *)
(***************************************************************************)
MaxParams == 2
MaxSections == 2

ParamKeys == {"a", "b", "ab", "n"}
Rets == {double, void, int}
Layouts == {"plain", "call", "prefix", "nocomment", "other"}

\* the sequences over S of length lo to hi
SeqsOf(S, lo, hi) == UNION {[1..n -> S] : n \in lo..hi}

Sec(h, es, t) == [hdr |-> h, entries |-> es, term |-> t]

\* the example of the specification: "Given" lists a and b
sepp_doc == <<Sec("G", <<"a", "b">>, TRUE)>>

\* the comments of the declarations that Function is built from
FunctionDocs ==
  {<<>>,
   sepp_doc,
   <<Sec("G", <<"a">>, TRUE), Sec("R", <<"b", "note">>, TRUE)>>,
   <<Sec("G", <<"a,b">>, TRUE), Sec("GR", <<"ab">>, TRUE)>>}

\* the entry lines of one section of the comments FunctionDoc is built from
EntryLists == {<<>>, <<"a,b">>, <<"ab", "note">>}

Sections == {Sec(h, es, t) : h \in Headers, es \in EntryLists, t \in BOOLEAN}

\* the definitions Argument is built from directly
Definitions ==
  {<<"d", "o", "u", "b", "l", "e", " ", "a", "[", "3", "]">>,
   <<"d", "o", "u", "b", "l", "e", " ", "*", "a", "b">>,
   <<"d", "o", "u", "b", "l", "e", " ", "*", "a", ",", "b">>}

\* the calls of args_by_inout: the directions asked for, the attribute, the
\* separator
Filters == {<<dir_in>>, <<dir_out, dir_inout>>, <<dir_ret>>, <<dir_unknown>>,
            <<dir_in, dir_inout>>}
Queries ==
  {[dirs |-> f, prop |-> pr, join |-> j] :
     f \in Filters, pr \in {None, Some("name"), Some("ctype")},
     j \in {None, Some(<<",">>)}}

(***************************************************************************)
(* The state machine.  src and match_line are the inputs; status is "new"  *)
(* before Function(...) is called, "built" when it returned, "raised" when *)
(* it raised, and "doc" when a FunctionDoc was built on its own; self, fd  *)
(* and args are the Function, its FunctionDoc and its arguments; out is    *)
(* what the last args_by_inout returned.                                   *)
(***************************************************************************)
\* declarations with their comment, read whole
InitDeclarations ==
  /\ src \in {[layout |-> "plain", isdir |-> FALSE, path |-> erfa_c, ret |-> r,
               params |-> ps, doc |-> d] :
                r \in Rets, ps \in SeqsOf(ParamKeys, 1, MaxParams),
                d \in FunctionDocs}
  /\ match_line = None

\* files that hold more than the declaration, with and without the anchor
InitFiles ==
  /\ src \in {[layout |-> l, isdir |-> FALSE, path |-> erfa_c, ret |-> r,
               params |-> <<"a", "b">>, doc |-> sepp_doc] :
                l \in Layouts, r \in Rets}
  /\ match_line \in {None, Some(<<>>), Some(anchor(src.ret, eraSepp))}

\* a directory with one file for each function, and a file, under the
\* ways their path is written
InitDirectory ==
  /\ src \in {[layout |-> l, isdir |-> sp.isdir, path |-> sp.path,
               ret |-> double, params |-> <<"a", "b">>, doc |-> sepp_doc] :
                l \in {"plain", "nocomment", "other"}, sp \in SourcePaths}
  /\ match_line \in {None, Some(anchor(src.ret, eraSepp))}

Init ==
  /\ InitDeclarations \/ InitFiles \/ InitDirectory
  /\ status = "new"
  /\ err = None
  /\ self = None
  /\ fd = None
  /\ args = <<>>
  /\ out = None

\* what Function(...) leaves
Constructed(f) ==
  /\ self' = Some(f.self)
  /\ fd' = f.fd
  /\ args' = f.args
  /\ err' = f.err
  /\ status' = IF f.err = None THEN "built" ELSE "raised"

\* Function(name, source_path, match_line)
Construct ==
  /\ status = "new"
  /\ Constructed(Function(eraSepp, source_path(src), src.isdir, file_text(src),
                          match_line))
  /\ UNCHANGED <<src, match_line, out>>

\* what a read of args[i].inout_state leaves
StateRead(i, r) ==
  /\ args' = [args EXCEPT ![i] = r[1]]
  /\ fd' = Some(r[2])

\* a read of args[i].inout_state
ReadInoutState(i) ==
  /\ status \in {"built", "doc"}
  /\ i \in 1..Len(args)
  /\ StateRead(i, Argument_inout_state(args[i], fd[1]))
  /\ UNCHANGED <<src, match_line, status, err, self, out>>

\* what a call of args_by_inout leaves
Queried(q, r) ==
  /\ args' = r[1]
  /\ fd' = Some(r[2])
  /\ out' = Some([query |-> q,
                  result |-> args_by_inout(r[1], join(<<"|">>, q.dirs),
                                           q.prop, q.join)])

\* a call of args_by_inout
ArgsByInout(q) ==
  /\ status = "built"
  /\ Queried(q, read_all(args, fd[1]))
  /\ UNCHANGED <<src, match_line, status, err, self>>

Next ==
  \/ Construct
  \/ \E i \in 1..(MaxParams + 1) : ReadInoutState(i)
  \/ \E q \in Queries : ArgsByInout(q)

Spec == Init /\ [][Next]_vars

\* FunctionDoc(comment) built on its own
InitDoc ==
  /\ src \in {[layout |-> "doc", isdir |-> FALSE, path |-> erfa_c, ret |-> void,
               params |-> <<>>, doc |-> d] : d \in SeqsOf(Sections, 0, MaxSections)}
  /\ match_line = None
  /\ status = "doc"
  /\ err = None
  /\ self = None
  /\ fd = Some(FunctionDoc(comment_text(src.doc)))
  /\ args = <<>>
  /\ out = None

\* a read of FunctionDoc.input
ReadInput ==
  /\ status = "doc"
  /\ fd' = Some(FunctionDoc_input(fd[1]))
  /\ UNCHANGED <<src, match_line, status, err, self, args, out>>

\* a read of FunctionDoc.output
ReadOutput ==
  /\ status = "doc"
  /\ fd' = Some(FunctionDoc_output(fd[1]))
  /\ UNCHANGED <<src, match_line, status, err, self, args, out>>

\* Argument(definition, doc): one Argument for each FunctionDoc
NewArgument(definition) ==
  /\ status = "doc"
  /\ args = <<>>
  /\ ~Argument_raises(definition)
  /\ args' = <<Argument(definition)>>
  /\ UNCHANGED <<src, match_line, status, err, self, fd, out>>

NextDoc ==
  \/ ReadInput
  \/ ReadOutput
  \/ \E definition \in Definitions : NewArgument(definition)
  \/ ReadInoutState(1)

SpecDoc == InitDoc /\ [][NextDoc]_vars

(***************************************************************************)
(* What the comments and the declarations say, read from their structure   *)
(* and not from their text.                                                *)
(***************************************************************************)
\* the names the entry lines of a section list
SectionNames(sec) ==
  UNION {{entry_names(sec.entries[k])[j] :
            j \in 1..Len(entry_names(sec.entries[k]))} :
         k \in 1..Len(sec.entries)}

\* the names listed in some section of a comment
DocNames(doc) == UNION {SectionNames(doc[k]) : k \in 1..Len(doc)}

\* the names as the entry lines of a section write them, in order (a note
\* line writes none)
RECURSIVE WrittenNames(_)
WrittenNames(es) ==
  IF es = <<>> THEN <<>>
  ELSE (IF entry_names(Head(es)) = <<>> THEN <<>>
        ELSE <<join(<<",">>, entry_names(Head(es)))>>)
       \o WrittenNames(Tail(es))

\* the written names of the section with header h, when the comment has
\* one and it is terminated
SectionWritten(doc, h) ==
  IF \E k \in 1..Len(doc) : doc[k].hdr = h /\ doc[k].term
  THEN WrittenNames(doc[CHOOSE k \in 1..Len(doc) : doc[k].hdr = h].entries)
  ELSE <<>>

\* comments with at most one section for each header
DistinctHeaders(doc) ==
  \A j, k \in 1..Len(doc) : doc[j].hdr = doc[k].hdr => j = k

\* comments laid out as the parser expects: one section for each header,
\* each with entry lines and closed by its terminator line
Contract(doc) ==
  /\ DistinctHeaders(doc)
  /\ \A k \in 1..Len(doc) : doc[k].term /\ doc[k].entries # <<>>

\* the comma-separated pieces of a written name
CommaPieces(s) ==
  {SubSeq(s, p[1], p[2]) :
     p \in {q \in (1..(Len(s) + 1)) \X (0..Len(s)) :
              /\ q[1] <= q[2] + 1
              /\ (q[1] = 1 \/ s[q[1] - 1] = ",")
              /\ (q[2] = Len(s) \/ s[q[2] + 1] = ",")
              /\ \A k \in q[1]..q[2] : s[k] # ","}}

\* the written names of parsed entries, in order
NamesOf(entries) == [k \in 1..Len(entries) |-> entries[k].name[1]]

\* whether a name is a comma-separated piece of the name of a parsed entry
PieceOf(name, entries) ==
  \E k \in 1..Len(entries) : name \in CommaPieces(entries[k].name[1])

(***************************************************************************)
(* The documentation comment on its own (SpecDoc).                         *)
(***************************************************************************)
\* C1: when a comment laid out as the parser expects has a "Given and
\* returned" section that lists the name of an argument, whatever its other
\* sections list, the name is in FunctionDoc.input and in
\* FunctionDoc.output and the argument's inout_state is 'inout'.
C1_GivenAndReturnedIsInout ==
  \A i \in 1..Len(args) :
    (/\ status = "doc"
     /\ args[i].inout_state # None
     /\ Contract(src.doc)
     /\ \E k \in 1..Len(src.doc) :
          src.doc[k].hdr = "GR" /\ args[i].name \in SectionNames(src.doc[k]))
    => /\ PieceOf(args[i].name, fd[1].input[1])
       /\ PieceOf(args[i].name, fd[1].output[1])
       /\ args[i].inout_state = Some(dir_inout)

\* C2: an argument whose name no section of the comment lists (a comment
\* without sections and sections without terminator included) has the
\* inout_state '' after every read of it; the read has no failing branch.
C2_UnlistedIsUnknown ==
  \A i \in 1..Len(args) :
    (/\ status = "doc"
     /\ args[i].inout_state # None
     /\ args[i].name \notin DocNames(src.doc))
    => args[i].inout_state = Some(dir_unknown)

\* an argument read as '' under a comment whose sections list other names,
\* one of them without terminator
C2_Witness ==
  /\ status = "doc"
  /\ args # <<>>
  /\ args[1].inout_state = Some(dir_unknown)
  /\ args[1].name \notin DocNames(src.doc)
  /\ \E k \in 1..Len(src.doc) :
       ~src.doc[k].term /\ SectionNames(src.doc[k]) # {}

\* C3: the direction of an argument follows from whether its name is one
\* of the comma-separated pieces of the name of a parsed entry: in an entry
\* of input only gives 'in', in an entry of output only gives 'out', and a
\* name that is a piece of no entry (the whole "n1,n2" or a part of a piece
\* included) gets ''.
C3_ExactMembership ==
  \A i \in 1..Len(args) :
    (status = "doc" /\ args[i].inout_state # None)
    => /\ (/\ PieceOf(args[i].name, fd[1].input[1])
           /\ ~PieceOf(args[i].name, fd[1].output[1]))
          => args[i].inout_state = Some(dir_in)
       /\ (/\ ~PieceOf(args[i].name, fd[1].input[1])
           /\ PieceOf(args[i].name, fd[1].output[1]))
          => args[i].inout_state = Some(dir_out)
       /\ (/\ ~PieceOf(args[i].name, fd[1].input[1])
           /\ ~PieceOf(args[i].name, fd[1].output[1]))
          => args[i].inout_state = Some(dir_unknown)

\* the argument a gets 'in' from the entry "a,b" of input
C3_Witness ==
  /\ status = "doc"
  /\ args # <<>>
  /\ args[1].name = <<"a">>
  /\ args[1].inout_state = Some(dir_in)
  /\ \E k \in 1..Len(fd[1].input[1]) :
       fd[1].input[1][k].name[1] = <<"a", ",", "b">>
  /\ ~PieceOf(<<"a">>, fd[1].output[1])

\* C9: once FunctionDoc.input or FunctionDoc.output has been computed no
\* step changes it (every later read returns the same entries in the same
\* order), and a read of FunctionDoc.input or FunctionDoc.output that
\* computes one of them leaves the other as it was.
C9_LazyOnce ==
  [][status = "doc" =>
       /\ fd[1].input # None => fd'[1].input = fd[1].input
       /\ fd[1].output # None => fd'[1].output = fd[1].output
       /\ (args' = args /\ fd'[1].input # fd[1].input)
          => fd'[1].output = fd[1].output
       /\ (args' = args /\ fd'[1].output # fd[1].output)
          => fd'[1].input = fd[1].input]_vars

\* both sequences computed, input with entries
C9_Witness ==
  /\ status = "doc"
  /\ fd[1].input # None
  /\ fd[1].input[1] # <<>>
  /\ fd[1].output # None

\* C10: for a comment with at most one section for each header,
\* FunctionDoc.input holds the entries of the terminated "Given" section
\* followed by those of the terminated "Given and returned" section, each
\* once, and FunctionDoc.output those of "Returned" followed by those of
\* "Given and returned"; absent and unterminated sections add nothing.
C10_SectionsIndependent ==
  (status = "doc" /\ DistinctHeaders(src.doc))
  => /\ fd[1].input # None
        => NamesOf(fd[1].input[1])
           = SectionWritten(src.doc, "G") \o SectionWritten(src.doc, "GR")
     /\ fd[1].output # None
        => NamesOf(fd[1].output[1])
           = SectionWritten(src.doc, "R") \o SectionWritten(src.doc, "GR")

(***************************************************************************)
(* The construction of Function and its query (Spec).                      *)
(***************************************************************************)
\* what "f = Function(...)" binds: nothing when __init__ raised
Function_returned == IF status = "built" THEN self ELSE None

\* the declaration the file was written with
true_declaration == declaration_text(src.ret, eraSepp, src.params)

\* the ctype a parameter is written with
param_ctype(k) ==
  IF Param(k).ptr THEN Param(k).type \o <<" ", "*">>
  ELSE Param(k).type \o Param(k).dims

\* the members of a set of numbers, ascending
RECURSIVE Ascending(_)
Ascending(S) ==
  IF S = {} THEN <<>> ELSE <<Min(S)>> \o Ascending(S \ {Min(S)})

\* the parts of a sequence with sep between them
RECURSIVE Delimited(_, _)
Delimited(sep, parts) ==
  IF parts = <<>> THEN <<>>
  ELSE IF Len(parts) = 1 THEN parts[1]
  ELSE parts[1] \o sep \o Delimited(sep, Tail(parts))

\* the indexes of the arguments whose inout_state a query asks for
Picked(q) ==
  Ascending({i \in 1..Len(args) :
               \E k \in 1..Len(q.dirs) : q.dirs[k] = args[i].inout_state[1]})

\* the attribute of each picked argument
Projected(q) ==
  [k \in 1..Len(Picked(q)) |->
     IF q.prop[1] = "name" THEN args[Picked(q)[k]].name
     ELSE args[Picked(q)[k]].ctype]

\* the query and the declaration of the example
sepp_query == [dirs |-> <<dir_in>>, prop |-> Some("name"), join |-> Some(<<",">>)]
sepp_src ==
  /\ src.ret = double
  /\ src.params = <<"a", "b">>
  /\ src.doc = sepp_doc

\* C4: a Function built from a declaration with K parameter fragments has
\* K Arguments, the first K elements of args, and the i-th has the
\* definition, name and ctype of the i-th fragment.
C4_ArgumentsInOrder ==
  status = "built"
  => /\ Cardinality({i \in 1..Len(args) : args[i].cls = "Argument"})
        = Len(src.params)
     /\ Len(args) >= Len(src.params)
     /\ \A i \in 1..Len(src.params) :
          /\ args[i].cls = "Argument"
          /\ args[i].definition = param_text(src.params[i])
          /\ args[i].name = Param(src.params[i]).name
          /\ args[i].ctype = param_ctype(src.params[i])

\* built from two different parameters
C4_Witness ==
  /\ status = "built"
  /\ Len(src.params) = 2
  /\ src.params[1] # src.params[2]
  /\ args[1].name = Param(src.params[1]).name
  /\ args[2].name = Param(src.params[2]).name

\* C5: args ends with a Return exactly when the declaration's return type
\* is double; a Return is the last element, with name and inout_state
\* 'ret', and no other return type gives one.
C5_ReturnIffDouble ==
  status = "built"
  => /\ (src.ret = double)
        <=> (args # <<>> /\ args[Len(args)].cls = "Return")
     /\ \A i \in 1..Len(args) :
          args[i].cls = "Return"
          => /\ i = Len(args)
             /\ args[i].name = dir_ret
             /\ args[i].inout_state = Some(dir_ret)

\* a double function, built with its Return last
C5_Witness ==
  /\ status = "built"
  /\ src.ret = double
  /\ args[Len(args)].cls = "Return"
  /\ args[Len(args)].name = dir_ret
  /\ Len(args) = Len(src.params) + 1

\* C6 as stated: with match_line the prefix "<return type> eraSepp" of the
\* declaration and a call of eraSepp earlier in the file, cfunc is the true
\* declaration; when no line starts with match_line a ValueError names
\* match_line and the file.
C6_AnchorSkipsCallSite ==
  (status # "new" /\ match_line = Some(anchor(src.ret, eraSepp)))
  => /\ src.layout \in {"call", "prefix"}
        => self[1].cfunc = Some(true_declaration)
     /\ src.layout = "other"
        => /\ status = "raised"
           /\ err[1].type = "ValueError"
           /\ contains(err[1].msg, match_line[1])
           /\ contains(err[1].msg, self[1].filepath)

\* C6 amended: the search starts at the first line that starts with
\* match_line.  When that line is the true declaration, cfunc is the true
\* declaration whatever calls precede it; when an earlier line starts with
\* match_line (another function whose name starts with eraSepp) the call
\* that follows it is what cfunc holds; when no line starts with
\* match_line a ValueError names match_line and the file and nothing is
\* located.
C6_AnchorAtFirstMatchingLine ==
  (status # "new" /\ match_line = Some(anchor(src.ret, eraSepp)))
  => /\ src.layout \in {"plain", "call"}
        => status = "built" /\ self[1].cfunc = Some(true_declaration)
     /\ src.layout = "prefix"
        => status = "raised" /\ self[1].cfunc = Some(call_site)
     /\ src.layout = "nocomment" => self[1].cfunc = None
     /\ src.layout = "other"
        => /\ status = "raised"
           /\ err[1].type = "ValueError"
           /\ contains(err[1].msg, match_line[1])
           /\ contains(err[1].msg, self[1].filepath)
           /\ self[1].cfunc = None

\* the call ahead of the declaration skipped by match_line
C6_Witness ==
  /\ status = "built"
  /\ src.layout = "call"
  /\ match_line = Some(anchor(src.ret, eraSepp))
  /\ self[1].cfunc = Some(true_declaration)

\* C7: args_by_inout returns the arguments whose inout_state is one of the
\* directions asked for, in the order of args: the objects themselves, or
\* their attribute prop, or those attributes with join between them.
\* Joining the objects themselves (join without prop) raises TypeError
\* unless none is picked.  For eraSepp with "Given" listing a and b, both
\* are 'in' with ctype double[3] and args_by_inout('in', 'name', ',') is
\* "a,b".
C7_StableFilter ==
  out # None
  => /\ (out[1].query.prop = None /\ out[1].query.join = None)
        => /\ out[1].result.kind = "objs"
           /\ out[1].result.objs = Picked(out[1].query)
     /\ (out[1].query.prop # None /\ out[1].query.join = None)
        => /\ out[1].result.kind = "strs"
           /\ out[1].result.strs = Projected(out[1].query)
     /\ (out[1].query.prop # None /\ out[1].query.join # None)
        => /\ out[1].result.kind = "str"
           /\ out[1].result.str
              = Delimited(out[1].query.join[1], Projected(out[1].query))
     /\ (out[1].query.prop = None /\ out[1].query.join # None)
        => out[1].result.kind
           = (IF Picked(out[1].query) = <<>> THEN "str" ELSE "TypeError")
     /\ (sepp_src /\ out[1].query = sepp_query)
        => /\ out[1].result.str = <<"a", ",", "b">>
           /\ \A i \in 1..2 :
                /\ args[i].inout_state = Some(dir_in)
                /\ args[i].ctype = <<"d", "o", "u", "b", "l", "e", "[", "3", "]">>

\* the example: args_by_inout('in', 'name', ',') on eraSepp
C7_Witness ==
  /\ out # None
  /\ sepp_src
  /\ out[1].query = sepp_query
  /\ out[1].result.kind = "str"
  /\ out[1].result.str = <<"a", ",", "b">>
  /\ Len(args) = 3

\* C8: when the file holds no declaration of eraSepp followed by a comment,
\* Function(...) raises, the message of the error holds the function's name
\* and the file's path, and the caller gets no object.
C8_FailureNamesFunctionAndFile ==
  (status # "new" /\ src.layout \in {"nocomment", "other"})
  => /\ status = "raised"
     /\ contains(err[1].msg, eraSepp)
     /\ contains(err[1].msg, self[1].filepath)
     /\ Function_returned = None

====
